---- MODULE Spec2Model ----
(***************************************************************************)
(* Model of the "Training Machine Learning Models" notebook                *)
(* (src/Section 4/RidgeRegression.ipynb, second notebook of the file):     *)
(* the table-lookup predictors, the KFold split preview and the manual     *)
(* cross-validation loop over candidate cutoff ages.                       *)
(*                                                                         *)
(* Index arrays are 0-based as in NumPy; TLA+ sequences are 1-based, so    *)
(* row i of a frame is element i + 1 of the sequence that models it.       *)
(***************************************************************************)
EXTENDS Integers, Sequences, FiniteSets, TLC

(***************************************************************************)
(* Bounds of the model.                                                    *)
(***************************************************************************)
MaxRows == 3          \* largest titanic_train in the cross-validation runs
MaxPreviewRows == 8   \* largest titanic_train in the split preview
MaxTable == 3         \* largest reference table in direct predictor calls
MaxRuns == 2          \* how often the cross-validation cell is executed

(***************************************************************************)
(* Rows of the titanic frame: the columns the predictors read.             *)
(***************************************************************************)
Passenger(pclass, sex, sib, par, a, survived) ==
    [Pclass |-> pclass, Sex |-> sex, SiblingsSpousesAboard |-> sib,
     ParentsChildrenAboard |-> par, Age |-> a, Survived |-> survived]

Labels == {0, 1}

\* Rows with the same four lookup columns, on both sides of a cutoff of 10
\* (age 5 is below it, age 10 is exactly the cutoff), with both labels.
BasePassengers ==
    {Passenger(1, "male", 0, 0, a, s) : a \in {5, 10}, s \in Labels}

\* Rows that differ from the base rows in exactly one lookup column.
OtherPassengers ==
    {Passenger(2, "male", 0, 0, 5, 1), Passenger(1, "female", 0, 0, 5, 1),
     Passenger(1, "male", 1, 0, 5, 1), Passenger(1, "male", 0, 1, 5, 1)}

Passengers == BasePassengers \cup OtherPassengers

\* Rows of the datasets that are cross-validated, and query rows.
CVPassengers == BasePassengers \cup {Passenger(1, "female", 0, 0, 5, 1)}

\* Candidate lists: the cell's `ages` list, shortened.  A candidate that
\* `<` cannot compare with an age (a string, None) is written as a negative
\* number.
Cutoffs == {10, 50}
CandidateLists == {<<10>>, <<10, 50>>, <<10, -1>>}

Comparable(cutoff) == cutoff >= 0

\* value_counts() lists labels by descending count; the order of labels
\* with equal counts is not fixed by the library and differs between
\* builds: by label value (either direction) or by first appearance in
\* the column (either direction).  A build has one of them throughout.
TieOrders == {"lowest", "highest", "first", "last"}

Range(seq) == {seq[i] : i \in DOMAIN seq}

SeqsUpTo(S, lo, hi) == UNION {[1..m -> S] : m \in lo..hi}

VARIABLES
    titanic_train,   \* the training frame, a sequence of rows
    n_splits,        \* kf = KFold(n_splits=...)
    ages,            \* the candidate list
    tie_order,       \* the build's order of equal counts in value_counts()
    pc,              \* position in the cell being executed
    run,             \* number of the current execution of the CV cell
    age_i,           \* number of candidates the outer loop has taken
    age,             \* loop variable `age` / cutoff argument
    cv_perf,         \* list of scores of the current candidate
    fold_i,          \* number of (train, test) pairs the generator yielded
    current,         \* KFold._iter_test_indices: start of the next fold
    train,           \* training index array of the last yielded pair
    test,            \* held-out index array of the last yielded pair
    predicted,       \* predictions for the held-out rows of the last fold
    actual,          \* their Survived labels
    performance,     \* dict: candidate -> list of scores
    first_performance, \* `performance` as the first execution left it
    printed,         \* output of the preview cell: the pairs it printed
    x,               \* query row of a direct predictor call
    table,           \* reference table of a direct predictor call
    similar_tab,     \* positions (0-based) of the rows voted over
    result,          \* value returned by the direct predictor call
    previous,        \* results of earlier calls with the same arguments
    error,           \* exception that ended the cell, "" while there is none
    slots,           \* worker pool: (candidate, fold) -> score written
    running,         \* worker pool: evaluations computed, not yet written
    headlines,       \* the headlines, each a sequence of characters
    headline_sets,   \* the set of 3-grams of every headline
    sims,            \* the affinity matrix
    sim_i,           \* loop variable i of the affinity-matrix loop
    sim_j,           \* loop variable j of the affinity-matrix loop
    result_seq,      \* evaluate (4.3): candidate -> result sequence
    fm_f,            \* evaluate (4.3): fold index of the outer loop
    fm_h,            \* evaluate (4.3): candidates the inner loop has taken
    wcsse,           \* wcsse_plot: the integer array the loop reads and writes
    wc_i,            \* wcsse_plot: elements of wcsse the for loop has taken
    inertia_,        \* KMeans(n_clusters=k).fit(data).inertia_, for every k
    fits,            \* wcsse_plot: the n_clusters of the fits made, in order
    labels,          \* silhouette_plot: the cluster label of every sample
    sample_silhouette_values,   \* silhouette_samples(data, labels)
    y_lower,         \* silhouette_plot: where the next band starts
    bands,           \* silhouette_plot: the fill_betweenx calls made
    img,             \* the image: its shape and the colour of every pixel
    n_clusters,      \* kmeans_compression: number of clusters asked for
    centroids,       \* img_clust.cluster_centers_
    clust_pixels,    \* img_clust.predict(img_data)
    new_img,         \* the image kmeans_compression returns, or
                     \* svd_compress_image
    ranks,           \* svd_compress_image: the ranks asked for
    new_channels     \* svd_compress_image: the channels rebuilt so far

vars == <<titanic_train, n_splits, ages, tie_order, pc, run, age_i, age,
          cv_perf, fold_i, current, train, test, predicted, actual,
          performance, first_performance, printed, x, table, similar_tab,
          result, previous, error, slots, running, headlines, headline_sets,
          sims, sim_i, sim_j, result_seq, fm_f, fm_h, wcsse, wc_i, inertia_,
          fits, labels, sample_silhouette_values, y_lower, bands, img,
          n_clusters, centroids, clust_pixels, new_img, ranks, new_channels>>

\* the names of the Section 4 cells other than pc and error
loopVars == <<titanic_train, n_splits, ages, tie_order, run, age_i, age,
              cv_perf, fold_i, current, train, test, predicted, actual,
              performance, first_performance, printed, x, table, similar_tab,
              result, previous>>

workerVars == <<slots, running>>

simsVars == <<headlines, headline_sets, sims, sim_i, sim_j>>

evaluateVars == <<result_seq, fm_f, fm_h>>

wcsseVars == <<wcsse, wc_i, inertia_, fits>>

silhouetteVars == <<labels, sample_silhouette_values, y_lower, bands>>

kmeansVars == <<img, n_clusters, centroids, clust_pixels, new_img>>

svdVars == <<ranks, new_channels>>

\* the names of the Section 6 functions
clusterVars == <<wcsseVars, silhouetteVars, kmeansVars, svdVars>>

\* the names of the cells and procedures modelled after the affinity matrix
laterVars == <<evaluateVars, clusterVars>>

(***************************************************************************)
(* pandas: Series.value_counts() and Series.argmax() (idxmax).             *)
(***************************************************************************)
Count(col, l) == Cardinality({i \in DOMAIN col : col[i] = l})

FirstPos(col, l) == CHOOSE i \in DOMAIN col :
                        col[i] = l /\ \A j \in 1..(i - 1) : col[j] # l

\* TieBefore with the two label orders exchanged
TieBeforeSwapped(order, col, a, b) ==
    CASE order = "lowest"  -> a > b
      [] order = "highest" -> a < b
      [] order = "first"   -> FirstPos(col, a) < FirstPos(col, b)
      [] order = "last"    -> FirstPos(col, a) > FirstPos(col, b)

\* a is listed before b among labels of equal count
TieBefore(order, col, a, b) ==
    CASE order = "lowest"  -> a < b
      [] order = "highest" -> a > b
      [] order = "first"   -> FirstPos(col, a) < FirstPos(col, b)
      [] order = "last"    -> FirstPos(col, a) > FirstPos(col, b)

\* value_counts(): one entry per label present, by descending count
value_counts(col, order) ==
    LET present == {col[i] : i \in DOMAIN col}
        Before(a, b) == \/ Count(col, a) > Count(col, b)
                        \/ /\ Count(col, a) = Count(col, b)
                           /\ TieBefore(order, col, a, b)
        rank(l) == 1 + Cardinality({m \in present : Before(m, l)})
    IN  [r \in 1..Cardinality(present) |->
            LET l == CHOOSE l \in present : rank(l) = r
            IN  [label |-> l, count |-> Count(col, l)]]

\* argmin() in place of argmax(): the first entry holding the least count
argmin(counts) ==
    LET p == CHOOSE p \in DOMAIN counts :
                /\ \A q \in DOMAIN counts : counts[q].count >= counts[p].count
                /\ \A q \in 1..(p - 1) : counts[q].count > counts[p].count
    IN  counts[p].label

\* argmax(): index label of the first entry holding the largest count, as
\* in the pandas the notebook was written for (where Series.argmax is
\* idxmax; the code's comment reads "Get most common label").  It raises
\* ValueError on an empty series: see Raises.
argmax(counts) ==
    LET p == CHOOSE p \in DOMAIN counts :
                /\ \A q \in DOMAIN counts : counts[q].count <= counts[p].count
                /\ \A q \in 1..(p - 1) : counts[q].count < counts[p].count
    IN  counts[p].label

Column(tab, pos) == [j \in 1..Len(pos) |-> tab[pos[j] + 1].Survived]

Positions(tab) == [i \in 1..Len(tab) |-> i - 1]

(***************************************************************************)
(* table_lookup_predictor and table_lookup_predictor_2.                    *)
(***************************************************************************)
\* SimilarMask that does not compare the Sex column
SimilarMaskNoSex(r, row) ==
    /\ row.Pclass = r.Pclass
    /\ row.SiblingsSpousesAboard = r.SiblingsSpousesAboard
    /\ row.ParentsChildrenAboard = r.ParentsChildrenAboard

\* the boolean mask of table_lookup_predictor
SimilarMask(r, row) ==
    /\ row.Pclass = r.Pclass
    /\ row.Sex = r.Sex
    /\ row.SiblingsSpousesAboard = r.SiblingsSpousesAboard
    /\ row.ParentsChildrenAboard = r.ParentsChildrenAboard

\* SimilarMask2 with `<=` in place of `<` in the age comparison
SimilarMask2AtMost(r, row, cutoff) ==
    /\ row.Pclass = r.Pclass
    /\ row.Sex = r.Sex
    /\ row.SiblingsSpousesAboard = r.SiblingsSpousesAboard
    /\ row.ParentsChildrenAboard = r.ParentsChildrenAboard
    /\ ((row.Age <= cutoff) = (r.Age <= cutoff))

\* SimilarMask2 that asks only that a row below the cutoff has a query
\* below the cutoff
SimilarMask2OneWay(r, row, cutoff) ==
    /\ row.Pclass = r.Pclass
    /\ row.Sex = r.Sex
    /\ row.SiblingsSpousesAboard = r.SiblingsSpousesAboard
    /\ row.ParentsChildrenAboard = r.ParentsChildrenAboard
    /\ ((row.Age < cutoff) => (r.Age < cutoff))

\* the boolean mask of table_lookup_predictor_2
SimilarMask2(r, row, cutoff) ==
    /\ row.Pclass = r.Pclass
    /\ row.Sex = r.Sex
    /\ row.SiblingsSpousesAboard = r.SiblingsSpousesAboard
    /\ row.ParentsChildrenAboard = r.ParentsChildrenAboard
    /\ ((row.Age < cutoff) = (r.Age < cutoff))

\* table.loc[mask, "Survived"]: positions of the selected rows, in order
Similar(r, tab) ==
    SelectSeq(Positions(tab), LAMBDA i : SimilarMask(r, tab[i + 1]))

Similar2(r, tab, cutoff) ==
    SelectSeq(Positions(tab), LAMBDA i : SimilarMask2(r, tab[i + 1], cutoff))

\* default = table.Survived.value_counts().argmax() raises ValueError
\* when the table has no rows
Raises(tab) == Len(tab) = 0

\* default = table.Survived.value_counts().argmax()
DefaultLabel(tab, order) ==
    argmax(value_counts(Column(tab, Positions(tab)), order))

\* MostCommon that counts table.Survived instead of similar_tab
MostCommonOfTable(tab, sim, order) == DefaultLabel(tab, order)

\* MostCommon that takes the label of the first matching row
MostCommonFirstRow(tab, sim, order) == Column(tab, sim)[1]

\* similar_tab.value_counts().argmax()
MostCommon(tab, sim, order) == argmax(value_counts(Column(tab, sim), order))

\* Vote that guesses 0 instead of the default label
VoteGuessZero(tab, sim, order) ==
    IF Len(sim) = 0
    THEN 0
    ELSE MostCommon(tab, sim, order)

\* the if/else on len(similar_tab) that ends both predictors
Vote(tab, sim, order) ==
    IF Len(sim) = 0
    THEN DefaultLabel(tab, order)
    ELSE MostCommon(tab, sim, order)

table_lookup_predictor(r, tab, order) == Vote(tab, Similar(r, tab), order)

table_lookup_predictor_2(r, tab, cutoff, order) ==
    Vote(tab, Similar2(r, tab, cutoff), order)

(***************************************************************************)
(* sklearn.model_selection.KFold(n_splits) with its defaults               *)
(* (shuffle=False, random_state=None), as kf.split(titanic_train) uses it. *)
(***************************************************************************)
\* fold_sizes of a splitter that draws on state shared by all evaluations:
\* the sizes depend on how many evaluations have been written so far
fold_sizes_by_progress(n, k) ==
    [f \in 1..k |-> (n \div k) +
        (IF Cardinality(DOMAIN slots) % 2 = 0
         THEN (IF f <= n % k THEN 1 ELSE 0)
         ELSE (IF f > k - (n % k) THEN 1 ELSE 0))]

\* fold_sizes that puts the whole remainder into the last fold
fold_sizes_remainder_last(n, k) ==
    [f \in 1..k |-> IF f = k THEN n - (k - 1) * (n \div k) ELSE n \div k]

\* fold_sizes of a splitter whose assignment changes from one execution of
\* the cell to the next
fold_sizes_per_run(n, k) ==
    [f \in 1..k |-> (n \div k) +
        (IF run % 2 = 1
         THEN (IF f <= n % k THEN 1 ELSE 0)
         ELSE (IF f > k - (n % k) THEN 1 ELSE 0))]

\* fold_sizes of a splitter whose assignment changes from one candidate to
\* the next
fold_sizes_per_candidate(n, k) ==
    [f \in 1..k |-> (n \div k) +
        (IF age_i % 2 = 1
         THEN (IF f <= n % k THEN 1 ELSE 0)
         ELSE (IF f > k - (n % k) THEN 1 ELSE 0))]

\* fold_sizes = full(n_splits, n // n_splits); fold_sizes[:n % n_splits] += 1
fold_sizes(n, k) ==
    [f \in 1..k |-> (n \div k) + (IF f <= n % k THEN 1 ELSE 0)]

\* kf.split without the check of n_splits against the number of rows
SplitNeverRaises(frame, k) == FALSE

\* kf.split(X) raises ValueError, before it yields anything, when n_splits
\* is greater than the number of rows of X
SplitRaises(frame, k) == k > Len(frame)

\* `current` when fold f is reached: the sizes of the folds before it
RECURSIVE SizesBefore(_, _)
SizesBefore(sizes, f) ==
    IF f <= 1 THEN 0 ELSE sizes[f - 1] + SizesBefore(sizes, f - 1)

\* the slice taken from its far end backwards
test_index_descending(start, size) == [j \in 1..size |-> start + size - j]

\* indices[start:stop] with start = current, stop = current + fold_size
test_index(start, size) == [j \in 1..size |-> start + j - 1]

\* train_index that does not mask the held-out indices out
train_index_all(n, tst) == [i \in 1..n |-> i - 1]

\* indices[np.logical_not(test_mask)]
train_index(n, tst) ==
    LET held == {tst[j] : j \in DOMAIN tst}
    IN  SelectSeq([i \in 1..n |-> i - 1], LAMBDA i : i \notin held)

\* titanic_train.iloc[idx, :]
iloc(frame, idx) == [j \in 1..Len(idx) |-> frame[idx[j] + 1]]

\* accuracy_score that counts the unequal entries
error_score(y_true, y_pred) ==
    <<Cardinality({j \in DOMAIN y_true : y_true[j] # y_pred[j]}), Len(y_true)>>

(***************************************************************************)
(* sklearn.metrics.accuracy_score: the fraction of equal entries, kept as  *)
(* the pair <<equal entries, entries>>.                                    *)
(***************************************************************************)
accuracy_score(y_true, y_pred) ==
    <<Cardinality({j \in DOMAIN y_true : y_true[j] = y_pred[j]}), Len(y_true)>>

\* frame.apply(table_lookup_predictor_2, 1, table=tab, age=cutoff)
apply_predictor_2(frame, tab, cutoff, order) ==
    [j \in 1..Len(frame) |->
        table_lookup_predictor_2(frame[j], tab, cutoff, order)]

\* the body of the inner loop for cutoff h and the f-th pair of
\* kf.split(frame): the score appended to cv_perf
FoldScore(frame, k, h, f, order) ==
    LET n     == Len(frame)
        sizes == fold_sizes(n, k)
        tst   == test_index(SizesBefore(sizes, f), sizes[f])
        trn   == train_index(n, tst)
    IN  accuracy_score(Column(frame, tst),
                       apply_predictor_2(iloc(frame, tst), iloc(frame, trn),
                                         h, order))

(***************************************************************************)
(* The cross-validation cell.                                              *)
(***************************************************************************)
NoRow == Passenger(1, "male", 0, 0, 5, 0)

\* names the cell being modelled has not assigned
NoCall == x = NoRow /\ table = <<>> /\ similar_tab = <<>> /\ result = 0

NoLoop ==
    /\ run = 1 /\ age_i = 0 /\ cv_perf = <<>> /\ predicted = <<>>
    /\ actual = <<>> /\ performance = <<>> /\ first_performance = <<>>

\* no worker pool and no affinity matrix
NoWorkers == slots = <<>> /\ running = {}

NoSims ==
    /\ headlines = <<>> /\ headline_sets = <<>> /\ sims = <<>>
    /\ sim_i = 0 /\ sim_j = 0

NoEvaluate == result_seq = <<>> /\ fm_f = 0 /\ fm_h = 0

NoWcsse == wcsse = <<>> /\ wc_i = 0 /\ inertia_ = <<>> /\ fits = <<>>

NoSilhouette ==
    /\ labels = <<>> /\ sample_silhouette_values = <<>>
    /\ y_lower = 0 /\ bands = <<>>

NoKmeans ==
    /\ img = <<>> /\ n_clusters = 0 /\ centroids = <<>>
    /\ clust_pixels = <<>> /\ new_img = <<>>

NoSvd == ranks = <<>> /\ new_channels = <<>>

NoCluster == NoWcsse /\ NoSilhouette /\ NoKmeans /\ NoSvd

NoLater == NoEvaluate /\ NoCluster

\* the Section 4 cells have not run
NoSection4 ==
    /\ titanic_train = <<>>
    /\ n_splits = 2
    /\ ages = <<10>>
    /\ tie_order = "lowest"
    /\ age = 0
    /\ fold_i = 0
    /\ current = 0
    /\ train = <<>>
    /\ test = <<>>
    /\ NoLoop
    /\ NoCall
    /\ printed = <<>>
    /\ previous = <<>>
    /\ NoWorkers

Idle ==
    /\ NoCall /\ printed = <<>> /\ previous = <<>> /\ error = ""
    /\ NoWorkers /\ NoSims

Init ==
    /\ titanic_train \in SeqsUpTo(CVPassengers, 0, MaxRows)
    /\ n_splits \in 2..(MaxRows + 1)
    /\ ages \in CandidateLists
    /\ tie_order \in TieOrders
    /\ pc = "for_age"
    /\ run = 1
    /\ age_i = 0
    /\ age = 0
    /\ cv_perf = <<>>
    /\ fold_i = 0
    /\ current = 0
    /\ train = <<>>
    /\ test = <<>>
    /\ predicted = <<>>
    /\ actual = <<>>
    /\ performance = <<>>
    /\ first_performance = <<>>
    /\ Idle
    /\ NoLater

\* NextAge without `cv_perf = list()`
NextAgeKeepList ==
    /\ pc = "for_age"
    /\ age_i < Len(ages)
    /\ age_i' = age_i + 1
    /\ age' = ages[age_i + 1]
    /\ fold_i' = 0
    /\ current' = 0
    /\ pc' = "for_fold"
    /\ UNCHANGED <<titanic_train, n_splits, ages, tie_order, run, train, test,
                   predicted, actual, performance, first_performance,
                   printed, x, table, similar_tab, result, cv_perf>>
    /\ UNCHANGED <<previous, error, workerVars, simsVars>>
    /\ UNCHANGED laterVars

\* for age in ages: cv_perf = list(); kf.split(titanic_train) is started
NextAge ==
    /\ pc = "for_age"
    /\ age_i < Len(ages)
    /\ age_i' = age_i + 1
    /\ age' = ages[age_i + 1]
    /\ cv_perf' = <<>>
    /\ fold_i' = 0
    /\ current' = 0
    /\ pc' = "for_fold"
    /\ UNCHANGED <<titanic_train, n_splits, ages, tie_order, run, train, test,
                   predicted, actual, performance, first_performance,
                   printed, x, table, similar_tab, result>>
    /\ UNCHANGED <<previous, error, workerVars, simsVars>>
    /\ UNCHANGED laterVars

\* one pass of the body of `for train, test in kf.split(titanic_train)`:
\* kf.split raises ValueError when asked for a first pair it cannot make;
\* on the first held-out row the predictor raises ValueError when the
\* training table is empty and TypeError when the cutoff cannot be compared
\* with an age
FoldStep ==
    /\ pc = "for_fold"
    /\ fold_i < n_splits
    /\ IF SplitRaises(titanic_train, n_splits)
       THEN /\ pc' = "raised"
            /\ error' = "ValueError"
            /\ UNCHANGED <<test, train, predicted, actual, cv_perf, current,
                           fold_i>>
       ELSE LET n    == Len(titanic_train)
                size == fold_sizes(n, n_splits)[fold_i + 1]
                tst  == test_index(current, size)
                trn  == train_index(n, tst)
            IN  /\ test' = tst
                /\ train' = trn
                /\ current' = current + size
                /\ fold_i' = fold_i + 1
                /\ IF Len(tst) > 0 /\ Raises(iloc(titanic_train, trn))
                   THEN /\ pc' = "raised"
                        /\ error' = "ValueError"
                        /\ UNCHANGED <<predicted, actual, cv_perf>>
                   ELSE IF Len(tst) > 0 /\ ~Comparable(age)
                   THEN /\ pc' = "raised"
                        /\ error' = "TypeError"
                        /\ UNCHANGED <<predicted, actual, cv_perf>>
                   ELSE LET pred == apply_predictor_2(
                                       iloc(titanic_train, tst),
                                       iloc(titanic_train, trn),
                                       age, tie_order)
                            act  == Column(titanic_train, tst)
                        IN  /\ predicted' = pred
                            /\ actual' = act
                            /\ cv_perf' =
                                  Append(cv_perf, accuracy_score(act, pred))
                            /\ UNCHANGED <<pc, error>>
    /\ UNCHANGED <<titanic_train, n_splits, ages, tie_order, run, age_i,
                   age, performance, first_performance, printed, x, table,
                   similar_tab, result>>
    /\ UNCHANGED <<previous, workerVars, simsVars>>
    /\ UNCHANGED laterVars

\* a loop that also overwrites the candidate it has finished with 0
StoreAgeClearCandidate ==
    /\ pc = "for_fold"
    /\ fold_i = n_splits
    /\ performance' = [h \in DOMAIN performance \cup {age} |->
                          IF h = age THEN cv_perf ELSE performance[h]]
    /\ ages' = [ages EXCEPT ![age_i] = 0]
    /\ pc' = "for_age"
    /\ UNCHANGED <<titanic_train, n_splits, tie_order, run, age_i, age,
                   cv_perf, fold_i, current, train, test, predicted, actual,
                   first_performance, printed, x, table, similar_tab, result>>
    /\ UNCHANGED <<previous, error, workerVars, simsVars>>
    /\ UNCHANGED laterVars

\* a loop whose score list is built newest first
StoreAgeNewestFirst ==
    /\ pc = "for_fold"
    /\ fold_i = n_splits
    /\ performance' = [h \in DOMAIN performance \cup {age} |->
                          IF h = age
                          THEN [f \in DOMAIN cv_perf |->
                                   cv_perf[Len(cv_perf) + 1 - f]]
                          ELSE performance[h]]
    /\ pc' = "for_age"
    /\ UNCHANGED <<titanic_train, n_splits, ages, tie_order, run, age_i, age,
                   cv_perf, fold_i, current, train, test, predicted, actual,
                   first_performance, printed, x, table, similar_tab, result>>
    /\ UNCHANGED <<previous, error, workerVars, simsVars>>
    /\ UNCHANGED laterVars

\* the generator is exhausted: performance[age] = cv_perf
StoreAge ==
    /\ pc = "for_fold"
    /\ fold_i = n_splits
    /\ performance' = [h \in DOMAIN performance \cup {age} |->
                          IF h = age THEN cv_perf ELSE performance[h]]
    /\ pc' = "for_age"
    /\ UNCHANGED <<titanic_train, n_splits, ages, tie_order, run, age_i, age,
                   cv_perf, fold_i, current, train, test, predicted, actual,
                   first_performance, printed, x, table, similar_tab, result>>
    /\ UNCHANGED <<previous, error, workerVars, simsVars>>
    /\ UNCHANGED laterVars

\* `for age in ages` is exhausted: the cell has finished
Finish ==
    /\ pc = "for_age"
    /\ age_i = Len(ages)
    /\ pc' = "done"
    /\ first_performance' = IF run = 1 THEN performance ELSE first_performance
    /\ UNCHANGED <<titanic_train, n_splits, ages, tie_order, run, age_i, age,
                   cv_perf, fold_i, current, train, test, predicted, actual,
                   performance, printed, x, table, similar_tab, result>>
    /\ UNCHANGED <<previous, error, workerVars, simsVars>>
    /\ UNCHANGED laterVars

\* the cell is executed again in the same kernel: `ages` and `performance`
\* are assigned anew, every other name keeps what the earlier run left
Rerun ==
    /\ pc = "done"
    /\ run < MaxRuns
    /\ run' = run + 1
    /\ performance' = <<>>
    /\ age_i' = 0
    /\ pc' = "for_age"
    /\ UNCHANGED <<titanic_train, n_splits, ages, tie_order, age, cv_perf,
                   fold_i, current, train, test, predicted, actual,
                   first_performance, printed, x, table, similar_tab, result>>
    /\ UNCHANGED <<previous, error, workerVars, simsVars>>
    /\ UNCHANGED laterVars

Next == NextAge \/ FoldStep \/ StoreAge \/ Finish \/ Rerun

Spec == Init /\ [][Next]_vars

(***************************************************************************)
(* The preview cell: for train, test in kf.split(titanic_train): print.    *)
(***************************************************************************)
InitPreview ==
    /\ \E n \in 0..MaxPreviewRows : titanic_train = [i \in 1..n |-> NoRow]
    /\ n_splits \in 0..(Len(titanic_train) + 1)
    /\ ages = <<10>>
    /\ tie_order \in TieOrders
    /\ pc = "construct"
    /\ age = 0
    /\ fold_i = 0
    /\ current = 0
    /\ train = <<>>
    /\ test = <<>>
    /\ NoLoop
    /\ Idle
    /\ NoLater

\* KFold.__init__ that rejects only n_splits < 1
ConstructKFoldAllowOne ==
    /\ pc = "construct"
    /\ IF n_splits < 1
       THEN pc' = "raised" /\ error' = "ValueError"
       ELSE pc' = "preview" /\ error' = error
    /\ UNCHANGED <<titanic_train, n_splits, ages, tie_order, run, age_i, age,
                   cv_perf, fold_i, current, train, test, predicted, actual,
                   performance, first_performance, printed, x, table,
                   similar_tab, result, previous, workerVars, simsVars>>
    /\ UNCHANGED laterVars

\* kf = KFold(n_splits=...): n_splits <= 1 raises ValueError
ConstructKFold ==
    /\ pc = "construct"
    /\ IF n_splits <= 1
       THEN pc' = "raised" /\ error' = "ValueError"
       ELSE pc' = "preview" /\ error' = error
    /\ UNCHANGED <<titanic_train, n_splits, ages, tie_order, run, age_i, age,
                   cv_perf, fold_i, current, train, test, predicted, actual,
                   performance, first_performance, printed, x, table,
                   similar_tab, result, previous, workerVars, simsVars>>
    /\ UNCHANGED laterVars

\* the generator yields the next pair and the body prints it, or the
\* generator raises
PreviewStep ==
    /\ pc = "preview"
    /\ fold_i < n_splits
    /\ IF SplitRaises(titanic_train, n_splits)
       THEN /\ pc' = "raised"
            /\ error' = "ValueError"
            /\ UNCHANGED <<test, train, printed, current, fold_i>>
       ELSE LET n    == Len(titanic_train)
                size == fold_sizes(n, n_splits)[fold_i + 1]
                tst  == test_index(current, size)
                trn  == train_index(n, tst)
            IN  /\ test' = tst
                /\ train' = trn
                /\ printed' = Append(printed, [train |-> trn, test |-> tst])
                /\ current' = current + size
                /\ fold_i' = fold_i + 1
                /\ UNCHANGED <<pc, error>>
    /\ UNCHANGED <<titanic_train, n_splits, ages, tie_order, run, age_i,
                   age, cv_perf, predicted, actual, performance,
                   first_performance, x, table, similar_tab, result>>
    /\ UNCHANGED <<previous, workerVars, simsVars>>
    /\ UNCHANGED laterVars

\* the generator is exhausted
PreviewEnd ==
    /\ pc = "preview"
    /\ fold_i = n_splits
    /\ pc' = "previewed"
    /\ UNCHANGED <<titanic_train, n_splits, ages, tie_order, run, age_i, age,
                   cv_perf, fold_i, current, train, test, predicted, actual,
                   performance, first_performance, printed, x, table,
                   similar_tab, result>>
    /\ UNCHANGED <<previous, error, workerVars, simsVars>>
    /\ UNCHANGED laterVars

NextPreview == ConstructKFold \/ PreviewStep \/ PreviewEnd

SpecPreview == InitPreview /\ [][NextPreview]_vars

(***************************************************************************)
(* Direct calls of the predictors, as in "Demonstration 1".                *)
(***************************************************************************)
\* the query rows of the direct calls: on both sides of a cutoff of 10, with
\* both labels
QueryPassengers ==
    {Passenger(1, "male", 0, 0, 5, 0), Passenger(1, "male", 0, 0, 10, 1)}

InitPredict ==
    /\ x \in QueryPassengers
    /\ table \in SeqsUpTo(Passengers, 0, MaxTable)
    /\ age \in Cutoffs
    /\ tie_order \in TieOrders
    /\ pc = "call"
    /\ titanic_train = <<>>
    /\ n_splits = 2
    /\ ages = <<age>>
    /\ fold_i = 0
    /\ current = 0
    /\ train = <<>>
    /\ test = <<>>
    /\ NoLoop
    /\ similar_tab = <<>>
    /\ result = 0
    /\ printed = <<>>
    /\ previous = <<>>
    /\ error = ""
    /\ NoWorkers
    /\ NoSims
    /\ NoLater

\* table_lookup_predictor(x, table)
CallPredictor ==
    /\ pc = "call"
    /\ IF Raises(table)
       THEN pc' = "raised" /\ UNCHANGED <<similar_tab, result>>
       ELSE /\ pc' = "returned"
            /\ similar_tab' = Similar(x, table)
            /\ result' = table_lookup_predictor(x, table, tie_order)
    /\ UNCHANGED <<titanic_train, n_splits, ages, tie_order, run, age_i, age,
                   cv_perf, fold_i, current, train, test, predicted, actual,
                   performance, first_performance, printed, x, table>>
    /\ UNCHANGED <<previous, error, workerVars, simsVars>>
    /\ UNCHANGED laterVars

\* a predictor that keeps its matching rows by narrowing the table it was
\* given
CallPredictor2InPlace ==
    /\ pc = "call"
    /\ IF Raises(table)
       THEN pc' = "raised_2" /\ UNCHANGED <<similar_tab, result, table>>
       ELSE /\ pc' = "returned_2"
            /\ similar_tab' = Similar2(x, table, age)
            /\ table' = SelectSeq(table, LAMBDA row : SimilarMask2(x, row, age))
            /\ result' = table_lookup_predictor_2(x, table, age, tie_order)
    /\ UNCHANGED <<titanic_train, n_splits, ages, tie_order, run, age_i, age,
                   cv_perf, fold_i, current, train, test, predicted, actual,
                   performance, first_performance, printed, x>>
    /\ UNCHANGED <<previous, error, workerVars, simsVars>>
    /\ UNCHANGED laterVars

\* table_lookup_predictor_2(x, table, age)
CallPredictor2 ==
    /\ pc = "call"
    /\ IF Raises(table)
       THEN pc' = "raised_2" /\ UNCHANGED <<similar_tab, result>>
       ELSE /\ pc' = "returned_2"
            /\ similar_tab' = Similar2(x, table, age)
            /\ result' = table_lookup_predictor_2(x, table, age, tie_order)
    /\ UNCHANGED <<titanic_train, n_splits, ages, tie_order, run, age_i, age,
                   cv_perf, fold_i, current, train, test, predicted, actual,
                   performance, first_performance, printed, x, table>>
    /\ UNCHANGED <<previous, error, workerVars, simsVars>>
    /\ UNCHANGED laterVars

\* table_lookup_predictor(x, table) called a second time with the same
\* arguments; the first result is kept in `previous`
CallPredictorAgain ==
    /\ pc = "returned"
    /\ previous' = <<result>>
    /\ pc' = "repeated"
    /\ similar_tab' = Similar(x, table)
    /\ result' = table_lookup_predictor(x, table, tie_order)
    /\ UNCHANGED <<titanic_train, n_splits, ages, tie_order, run, age_i, age,
                   cv_perf, fold_i, current, train, test, predicted, actual,
                   performance, first_performance, printed, x, table>>
    /\ UNCHANGED <<error, workerVars, simsVars>>
    /\ UNCHANGED laterVars

\* table_lookup_predictor_2(x, table, age) called a second time with the
\* same arguments
CallPredictor2Again ==
    /\ pc = "returned_2"
    /\ previous' = <<result>>
    /\ pc' = "repeated_2"
    /\ IF Raises(table)
       THEN UNCHANGED <<similar_tab, result>>
       ELSE /\ similar_tab' = Similar2(x, table, age)
            /\ result' = table_lookup_predictor_2(x, table, age, tie_order)
    /\ UNCHANGED <<titanic_train, n_splits, ages, tie_order, run, age_i, age,
                   cv_perf, fold_i, current, train, test, predicted, actual,
                   performance, first_performance, printed, x, table>>
    /\ UNCHANGED <<error, workerVars, simsVars>>
    /\ UNCHANGED laterVars

NextPredict ==
    CallPredictor \/ CallPredictor2 \/ CallPredictorAgain \/ CallPredictor2Again

SpecPredict == InitPredict /\ [][NextPredict]_vars

(***************************************************************************)
(* The worker pool of the specification (section 5): after the sequential  *)
(* cell has finished, the (candidate, fold) evaluations are computed again *)
(* by up to NumWorkers concurrent workers, in any order; every worker      *)
(* computes the loop body for its pair and writes only that pair's slot.   *)
(* The notebook has no such pool; only the loop body is its code.          *)
(***************************************************************************)
NumWorkers == 2

WorkerPassengers ==
    {Passenger(1, "male", 0, 0, 5, 0), Passenger(1, "male", 0, 0, 10, 1)}

InitWorkers ==
    /\ titanic_train \in SeqsUpTo(WorkerPassengers, 2, MaxRows)
    /\ n_splits \in 2..Len(titanic_train)
    /\ ages = <<10, 50>>
    /\ tie_order \in TieOrders
    /\ pc = "for_age"
    /\ age = 0
    /\ fold_i = 0
    /\ current = 0
    /\ train = <<>>
    /\ test = <<>>
    /\ NoLoop
    /\ Idle
    /\ NoLater

AllSlots == Range(ages) \X (1..n_splits)

\* a free worker takes a pair nobody has taken and computes its score
TakeEvaluation ==
    /\ pc = "done"
    /\ Cardinality(running) < NumWorkers
    /\ \E s \in AllSlots :
          /\ s \notin DOMAIN slots
          /\ \A r \in running : r.slot # s
          /\ running' = running \cup
                {[slot |-> s,
                  score |-> FoldScore(titanic_train, n_splits, s[1], s[2],
                                      tie_order)]}
    /\ UNCHANGED <<titanic_train, n_splits, ages, tie_order, pc, run, age_i,
                   age, cv_perf, fold_i, current, train, test, predicted,
                   actual, performance, first_performance, printed, x, table,
                   similar_tab, result, previous, error, slots, simsVars>>
    /\ UNCHANGED laterVars

\* a worker writes the score it computed into the slot of its pair
WriteSlot ==
    /\ \E r \in running :
          /\ running' = running \ {r}
          /\ slots' = [s \in DOMAIN slots \cup {r.slot} |->
                          IF s = r.slot THEN r.score ELSE slots[s]]
    /\ UNCHANGED <<titanic_train, n_splits, ages, tie_order, pc, run, age_i,
                   age, cv_perf, fold_i, current, train, test, predicted,
                   actual, performance, first_performance, printed, x, table,
                   similar_tab, result, previous, error, simsVars>>
    /\ UNCHANGED laterVars

NextWorkers ==
    NextAge \/ FoldStep \/ StoreAge \/ Finish \/ TakeEvaluation \/ WriteSlot

SpecWorkers == InitWorkers /\ [][NextWorkers]_vars

(***************************************************************************)
(* evaluate(dataset, candidates, k) in the loop order of section 4.3 of    *)
(* the specification: folds in the outer loop, candidates in the inner     *)
(* loop, each score appended to the result sequence of its candidate.  It  *)
(* is run after the notebook's cell has finished on the same dataset,      *)
(* candidate list and fold count, so the two mappings can be compared.     *)
(* The notebook has no such loop; only the loop body is its code.          *)
(***************************************************************************)
EvaluateLists == {<<10>>, <<10, 50>>, <<50, 10>>, <<10, 10>>}

InitEvaluate ==
    /\ titanic_train \in SeqsUpTo(WorkerPassengers, 2, MaxRows)
    /\ n_splits \in 2..Len(titanic_train)
    /\ ages \in EvaluateLists
    /\ tie_order \in TieOrders
    /\ pc = "for_age"
    /\ age = 0
    /\ fold_i = 0
    /\ current = 0
    /\ train = <<>>
    /\ test = <<>>
    /\ NoLoop
    /\ Idle
    /\ NoLater

\* evaluate is called
StartEvaluate ==
    /\ pc = "done"
    /\ pc' = "evaluate"
    /\ result_seq' = <<>>
    /\ fm_f' = 1
    /\ fm_h' = 0
    /\ UNCHANGED <<titanic_train, n_splits, ages, tie_order, run, age_i, age,
                   cv_perf, fold_i, current, train, test, predicted, actual,
                   performance, first_performance, printed, x, table,
                   similar_tab, result, previous, error, workerVars, simsVars>>
    /\ UNCHANGED clusterVars

\* one pass of the inner loop: the score of the next candidate on fold fm_f
\* is appended to the result sequence of that candidate
EvaluateStep ==
    /\ pc = "evaluate"
    /\ fm_f <= n_splits
    /\ LET h     == ages[fm_h + 1]
           score == FoldScore(titanic_train, n_splits, h, fm_f, tie_order)
           sofar == IF h \in DOMAIN result_seq THEN result_seq[h] ELSE <<>>
       IN  result_seq' = [c \in DOMAIN result_seq \cup {h} |->
                             IF c = h THEN Append(sofar, score)
                             ELSE result_seq[c]]
    /\ IF fm_h + 1 < Len(ages)
       THEN fm_h' = fm_h + 1 /\ fm_f' = fm_f
       ELSE fm_h' = 0 /\ fm_f' = fm_f + 1
    /\ UNCHANGED <<titanic_train, n_splits, ages, tie_order, pc, run, age_i,
                   age, cv_perf, fold_i, current, train, test, predicted,
                   actual, performance, first_performance, printed, x, table,
                   similar_tab, result, previous, error, workerVars, simsVars>>
    /\ UNCHANGED clusterVars

\* the outer loop is exhausted: evaluate returns result_seq
EvaluateEnd ==
    /\ pc = "evaluate"
    /\ fm_f = n_splits + 1
    /\ pc' = "evaluated"
    /\ UNCHANGED <<titanic_train, n_splits, ages, tie_order, run, age_i, age,
                   cv_perf, fold_i, current, train, test, predicted, actual,
                   performance, first_performance, printed, x, table,
                   similar_tab, result, previous, error, workerVars, simsVars,
                   evaluateVars>>
    /\ UNCHANGED clusterVars

NextEvaluate ==
    \/ NextAge \/ FoldStep \/ StoreAge \/ Finish
    \/ StartEvaluate \/ EvaluateStep \/ EvaluateEnd

SpecEvaluate == InitEvaluate /\ [][NextEvaluate]_vars

(***************************************************************************)
(* The affinity matrix of the headlines (Hierarchical.ipynb, and the same  *)
(* cell in LowDimensionalRepresentation.ipynb).  A headline is a sequence  *)
(* of characters; a similarity js = a / b is kept as the pair <<a, b>> of  *)
(* its numerator and denominator, and 0.0 of np.zeros as <<0, 1>>.         *)
(***************************************************************************)
MaxHeadlines == 3

\* ngrams(..., 3)
NgramLen == 3

\* headlines read from HNHeadlines.txt: some share 3-grams, two differ only
\* in case, one has nothing in common with the others, one is too short to
\* have a 3-gram
HeadlineChoices ==
    { <<"a", "b", "c">>, <<"A", "b", "C">>, <<"a", "b", "c", "d">>,
      <<"b", "c", "d">>, <<"x", "y", "z", "x">>, <<"a", "b">> }

\* str.lower() on the characters the headlines use
lower(h) ==
    [k \in DOMAIN h |->
        CASE h[k] = "A" -> "a"
          [] h[k] = "C" -> "c"
          [] OTHER -> h[k]]

\* set(''.join(u) for u in ngrams(h, n))
ngrams(h, n) == {SubSeq(h, k, k + n - 1) : k \in 1..(Len(h) - n + 1)}

\* headline_sets = [set(... ngrams(h.lower(), 3)) for h in headlines]
HeadlineSets(hs) == [k \in DOMAIN hs |-> ngrams(lower(hs[k]), NgramLen)]

\* np.zeros((len(headlines), len(headlines)))
zeros(n) == [c \in (0..(n - 1)) \X (0..(n - 1)) |-> <<0, 1>>]

\* len(h1.intersection(h2)) / len(h1.union(h2)) raises ZeroDivisionError
\* when the union has no element
DivisionRaises(h1, h2) == Cardinality(h1 \cup h2) = 0

\* js = len(h1.intersection(h2)) / len(h1.union(h2))
jaccard(h1, h2) == <<Cardinality(h1 \cap h2), Cardinality(h1 \cup h2)>>

\* a store that fills only the entry of row i
store_upper(m, i, j, js) == [m EXCEPT ![<<i, j>>] = js]

\* a store that fills only the mirrored entry
store_mirror(m, i, j, js) == [m EXCEPT ![<<j, i>>] = js]

\* sims[i,j] = sims[j,i] = js
store(m, i, j, js) == [m EXCEPT ![<<i, j>>] = js, ![<<j, i>>] = js]

InitSims ==
    /\ headlines \in SeqsUpTo(HeadlineChoices, 0, MaxHeadlines)
    /\ headline_sets = HeadlineSets(headlines)
    /\ sims = zeros(Len(headlines))
    /\ sim_i = 0
    /\ sim_j = 0
    /\ pc = "sims"
    /\ titanic_train = <<>>
    /\ n_splits = 2
    /\ ages = <<10>>
    /\ tie_order \in {"lowest"}
    /\ age = 0
    /\ fold_i = 0
    /\ current = 0
    /\ train = <<>>
    /\ test = <<>>
    /\ NoLoop
    /\ NoCall
    /\ printed = <<>>
    /\ previous = <<>>
    /\ error = ""
    /\ NoWorkers
    /\ NoLater

\* one pass of the inner loop body for the pair (sim_i, sim_j), then the
\* loops advance: j to the next column, or i to the next row with j = i
SimsStep ==
    /\ pc = "sims"
    /\ sim_i < Len(headlines)
    /\ LET h1 == headline_sets[sim_i + 1]
           h2 == headline_sets[sim_j + 1]
       IN  IF DivisionRaises(h1, h2)
           THEN /\ pc' = "raised"
                /\ error' = "ZeroDivisionError"
                /\ UNCHANGED <<sims, sim_i, sim_j>>
           ELSE /\ sims' = store(sims, sim_i, sim_j, jaccard(h1, h2))
                /\ IF sim_j + 1 < Len(headlines)
                   THEN sim_j' = sim_j + 1 /\ sim_i' = sim_i
                   ELSE sim_i' = sim_i + 1 /\ sim_j' = sim_i + 1
                /\ UNCHANGED <<pc, error>>
    /\ UNCHANGED <<headlines, headline_sets>>
    /\ UNCHANGED <<titanic_train, n_splits, ages, tie_order, run, age_i, age,
                   cv_perf, fold_i, current, train, test, predicted, actual,
                   performance, first_performance, printed, x, table,
                   similar_tab, result, previous, workerVars>>
    /\ UNCHANGED laterVars

\* range(len(headlines)) is exhausted: the cell has finished
SimsEnd ==
    /\ pc = "sims"
    /\ sim_i = Len(headlines)
    /\ pc' = "sims_done"
    /\ UNCHANGED <<titanic_train, n_splits, ages, tie_order, run, age_i, age,
                   cv_perf, fold_i, current, train, test, predicted, actual,
                   performance, first_performance, printed, x, table,
                   similar_tab, result, previous, error, workerVars, simsVars>>
    /\ UNCHANGED laterVars

NextSims == SimsStep \/ SimsEnd

SpecSims == InitSims /\ [][NextSims]_vars

(***************************************************************************)
(* wcsse_plot(data, max_clusters) of EvaluatingClusteringModelResults.     *)
(* A float is kept as the pair <<a, b>> of a / b; the elements of wcsse    *)
(* are integers, as np.arange makes an integer array.                      *)
(***************************************************************************)
MaxClusters == 3

\* inertia_ of a fit: a sum of squared distances, a float that is in general
\* not a whole number
InertiaValues == {<<0, 1>>, <<1, 2>>, <<3, 2>>, <<2, 1>>, <<7, 1>>}

\* np.arange(max_clusters) + 1
arange_plus_1(m) == [i \in 1..m |-> i]

\* a float stored into an element of an integer array: the fraction is
\* dropped
astype_int(f) == f[1] \div f[2]

InitWcsse ==
    /\ \E m \in 0..MaxClusters :
          /\ wcsse = arange_plus_1(m)
          /\ inertia_ \in [1..m -> InertiaValues]
    /\ wc_i = 0
    /\ fits = <<>>
    /\ pc = "for_k"
    /\ error = ""
    /\ NoSection4
    /\ NoSims
    /\ NoEvaluate
    /\ NoSilhouette
    /\ NoKmeans
    /\ NoSvd

\* one pass of `for k in wcsse`: the iterator reads the next element of the
\* array as it is now, the fit is made and its inertia_ stored at k - 1
WcsseStep ==
    /\ pc = "for_k"
    /\ wc_i < Len(wcsse)
    /\ LET k == wcsse[wc_i + 1]
       IN  IF k \in DOMAIN inertia_
           THEN /\ fits' = Append(fits, k)
                /\ wcsse' = [wcsse EXCEPT ![k] = astype_int(inertia_[k])]
                /\ wc_i' = wc_i + 1
                /\ UNCHANGED <<pc, error>>
           ELSE /\ pc' = "raised"
                /\ error' = "ValueError"
                /\ UNCHANGED <<fits, wcsse, wc_i>>
    /\ UNCHANGED <<inertia_, loopVars, workerVars, simsVars, evaluateVars,
                   silhouetteVars, kmeansVars, svdVars>>

\* the loop is exhausted: plt.plot(np.arange(max_clusters) + 1, wcsse)
WcssePlot ==
    /\ pc = "for_k"
    /\ wc_i = Len(wcsse)
    /\ pc' = "plotted"
    /\ UNCHANGED <<error, wcsseVars, loopVars, workerVars, simsVars,
                   evaluateVars, silhouetteVars, kmeansVars, svdVars>>

NextWcsse == WcsseStep \/ WcssePlot

SpecWcsse == InitWcsse /\ [][NextWcsse]_vars

(***************************************************************************)
(* silhouette_plot(data, labels) of EvaluatingClusteringModelResults (and  *)
(* the same function in Hierarchical.ipynb).  A silhouette value is kept   *)
(* as a whole number of tenths.                                            *)
(***************************************************************************)
MaxSamples == 4

ClusterLabels == {0, 1, 2}

SilhouetteValues == {-5, 0, 5}

\* np.unique(labels): the labels present, in increasing order
unique(col) ==
    LET S == Range(col)
    IN  [i \in 1..Cardinality(S) |->
            CHOOSE l \in S : Cardinality({m \in S : m < l}) = i - 1]

\* sample_silhouette_values[labels == k]: a new array
mask_select(values, col, k) ==
    LET pos == SelectSeq([i \in 1..Len(col) |-> i], LAMBDA i : col[i] = k)
    IN  [j \in 1..Len(pos) |-> values[pos[j]]]

\* cluster_values.sort()
sort(values) == SortSeq(values, LAMBDA a, b : a < b)

\* np.arange(y_lower, y_upper)
arange(lo, hi) == [j \in 1..(hi - lo) |-> lo + j - 1]

\* the next band starting right where the last one stopped
next_y_lower_no_gap(y_upper) == y_upper

\* y_lower = y_upper + 10
next_y_lower(y_upper) == y_upper + 10

InitSilhouette ==
    /\ labels \in SeqsUpTo(ClusterLabels, 1, MaxSamples)
    /\ sample_silhouette_values = <<>>
    /\ y_lower = 0
    /\ bands = <<>>
    /\ pc = "silhouette"
    /\ error = ""
    /\ NoSection4
    /\ NoSims
    /\ NoEvaluate
    /\ NoWcsse
    /\ NoKmeans
    /\ NoSvd

\* silhouette_score and silhouette_samples, which raise ValueError unless
\* the number of labels is between 2 and the number of samples less 1, and
\* y_lower = 10
SilhouetteSamples ==
    /\ pc = "silhouette"
    /\ IF Cardinality(Range(labels)) \in 2..(Len(labels) - 1)
       THEN /\ sample_silhouette_values' \in
                  [1..Len(labels) -> SilhouetteValues]
            /\ y_lower' = 10
            /\ pc' = "for_band"
            /\ error' = error
       ELSE /\ pc' = "raised"
            /\ error' = "ValueError"
            /\ UNCHANGED <<sample_silhouette_values, y_lower>>
    /\ UNCHANGED <<labels, bands, loopVars, workerVars, simsVars,
                   evaluateVars, wcsseVars, kmeansVars,
                   svdVars>>

\* one pass of `for k in np.unique(labels)`: the band of cluster k is drawn
SilhouetteBand ==
    /\ pc = "for_band"
    /\ Len(bands) < Len(unique(labels))
    /\ LET k              == unique(labels)[Len(bands) + 1]
           cluster_values == sort(mask_select(sample_silhouette_values,
                                              labels, k))
           nk             == Len(cluster_values)
           y_upper        == y_lower + nk
       IN  /\ bands' = Append(bands, [k  |-> k,
                                      y  |-> arange(y_lower, y_upper),
                                      x2 |-> cluster_values])
           /\ y_lower' = next_y_lower(y_upper)
    /\ UNCHANGED <<pc, error, labels, sample_silhouette_values, loopVars,
                   workerVars, simsVars, evaluateVars, wcsseVars, kmeansVars,
                   svdVars>>

\* the loop is exhausted: the average line and the axes are drawn
SilhouetteEnd ==
    /\ pc = "for_band"
    /\ Len(bands) = Len(unique(labels))
    /\ pc' = "drawn"
    /\ UNCHANGED <<error, silhouetteVars, loopVars, workerVars, simsVars,
                   evaluateVars, wcsseVars, kmeansVars,
                   svdVars>>

NextSilhouette == SilhouetteSamples \/ SilhouetteBand \/ SilhouetteEnd

SpecSilhouette == InitSilhouette /\ [][NextSilhouette]_vars

(***************************************************************************)
(* kmeans_compression(img, n_clusters) of kmeans.ipynb.  An image is its   *)
(* shape <<h, w, d>> and the colour of every pixel (i, j), a tuple of d    *)
(* channel values; a reshaped image is the sequence of its pixels.         *)
(***************************************************************************)
MaxPixels == 4

MaxColours == 2

\* RGB colours, and one RGBA colour for an image the assert rejects
Colours == {<<0, 0, 0>>, <<1, 1, 1>>, <<1, 0, 0>>}

ColoursOfDepth(d) == IF d = 3 THEN Colours ELSE {<<0, 0, 0, 1>>}

Shapes ==
    {sh \in (1..MaxPixels) \X (1..MaxPixels) \X {3, 4} :
        sh[1] * sh[2] <= MaxPixels}

Pixels(sh) == (0..(sh[1] - 1)) \X (0..(sh[2] - 1))

Images ==
    UNION {[shape : {sh}, data : [Pixels(sh) -> ColoursOfDepth(sh[3])]] :
              sh \in Shapes}

\* img.reshape(h * w, d): row p holds pixel (p // w, p % w)
reshape_rows(im) ==
    [p \in 1..(im.shape[1] * im.shape[2]) |->
        im.data[<<(p - 1) \div im.shape[2], (p - 1) % im.shape[2]>>]]

\* a reshape that fills the image column by column
reshape_image_by_column(rows, sh) ==
    [shape |-> sh,
     data  |-> [c \in Pixels(sh) |-> rows[c[2] * sh[1] + c[1] + 1]]]

\* new_img_data.reshape(h, w, d): pixel (i, j) is row i * w + j
reshape_image(rows, sh) ==
    [shape |-> sh,
     data  |-> [c \in Pixels(sh) |-> rows[c[1] * sh[2] + c[2] + 1]]]

\* squared distance of two RGB colours
dist2(a, b) ==
    (a[1] - b[1]) * (a[1] - b[1]) + (a[2] - b[2]) * (a[2] - b[2])
        + (a[3] - b[3]) * (a[3] - b[3])

\* KMeans.predict: for every row the index of the closest centre, the first
\* of them when several are as close
predict(centers, rows) ==
    [p \in DOMAIN rows |->
        (CHOOSE c \in DOMAIN centers :
            /\ \A e \in DOMAIN centers :
                  dist2(rows[p], centers[c]) <= dist2(rows[p], centers[e])
            /\ \A e \in 1..(c - 1) :
                  dist2(rows[p], centers[c]) < dist2(rows[p], centers[e])) - 1]

InitKmeans ==
    /\ img \in Images
    /\ n_clusters \in 1..MaxColours
    /\ centroids = <<>>
    /\ clust_pixels = <<>>
    /\ new_img = <<>>
    /\ pc = "kmeans"
    /\ error = ""
    /\ NoSection4
    /\ NoSims
    /\ NoEvaluate
    /\ NoWcsse
    /\ NoSilhouette
    /\ NoSvd

\* assert d == 3, the reshape, and KMeans(...).fit(img_data), which raises
\* ValueError for more clusters than rows; the centres a fit with random
\* initialisation ends with are any n_clusters colours
KmeansFit ==
    /\ pc = "kmeans"
    /\ IF img.shape[3] # 3
       THEN /\ pc' = "raised"
            /\ error' = "AssertionError"
            /\ UNCHANGED centroids
       ELSE IF n_clusters > img.shape[1] * img.shape[2]
       THEN /\ pc' = "raised"
            /\ error' = "ValueError"
            /\ UNCHANGED centroids
       ELSE /\ centroids' \in [1..n_clusters -> Colours]
            /\ pc' = "fitted"
            /\ error' = error
    /\ UNCHANGED <<img, n_clusters, clust_pixels, new_img, loopVars,
                   workerVars, simsVars, evaluateVars, wcsseVars,
                   silhouetteVars, svdVars>>

\* clust_pixels = img_clust.predict(img_data)
KmeansPredict ==
    /\ pc = "fitted"
    /\ clust_pixels' = predict(centroids, reshape_rows(img))
    /\ pc' = "predicted"
    /\ UNCHANGED <<error, img, n_clusters, centroids, new_img, loopVars,
                   workerVars, simsVars, evaluateVars, wcsseVars,
                   silhouetteVars, svdVars>>

\* new_img_data = centroids[clust_pixels]; return its reshape
KmeansRecolor ==
    /\ pc = "predicted"
    /\ LET new_img_data ==
              [p \in DOMAIN clust_pixels |-> centroids[clust_pixels[p] + 1]]
       IN  new_img' = reshape_image(new_img_data, img.shape)
    /\ pc' = "recolored"
    /\ UNCHANGED <<error, img, n_clusters, centroids, clust_pixels, loopVars,
                   workerVars, simsVars, evaluateVars, wcsseVars,
                   silhouetteVars, svdVars>>

NextKmeans == KmeansFit \/ KmeansPredict \/ KmeansRecolor

SpecKmeans == InitKmeans /\ [][NextKmeans]_vars

(***************************************************************************)
(* approx_compact_svd(a, r) and svd_compress_image(img, ranks) of          *)
(* Hierarchical.ipynb.  Of an array only its shape is kept, and of a       *)
(* rebuilt channel also the channel of img and the rank it was built from. *)
(***************************************************************************)
MaxRank == 3

Min(a, b) == IF a <= b THEN a ELSE b

\* images of svd_compress_image: every shape, one colour
SvdImages ==
    {[shape |-> sh,
      data  |-> [c \in Pixels(sh) |-> CHOOSE col \in ColoursOfDepth(sh[3]) :
                                          \A o \in ColoursOfDepth(sh[3]) :
                                              col[1] <= o[1] /\ col[2] <= o[2]]] :
        sh \in Shapes}

\* the rank tuples: three ranks, or two
RankTuples == [1..3 -> 0..MaxRank] \cup [1..2 -> 0..MaxRank]

\* ln.svd(a) with full matrices: U is m x m, S has min(m, n) entries and the
\* third result is n x n
svd(a) ==
    [U |-> <<a[1], a[1]>>, S |-> Min(a[1], a[2]), V |-> <<a[2], a[2]>>]

\* A[:rows, :cols] of a two-dimensional array
slice2(A, rows, cols) == <<Min(rows, A[1]), Min(cols, A[2])>>

\* A.T
T(A) == <<A[2], A[1]>>

\* approx_compact_svd that cuts V.T to r rows instead of r columns
approx_compact_svd_rows(a, r) ==
    [U |-> slice2(svd(a).U, a[1], r),
     S |-> Min(r, svd(a).S),
     V |-> slice2(T(svd(a).V), r, a[2])]

\* return (U[:m, :r], S[:r], V.T[:n, :r])
approx_compact_svd(a, r) ==
    [U |-> slice2(svd(a).U, a[1], r),
     S |-> Min(r, svd(a).S),
     V |-> slice2(T(svd(a).V), a[2], r)]

\* A.dot(B) raises ValueError unless the columns of A are the rows of B
DotRaises(A, B) == A[2] # B[1]

\* A.dot(B)
dot(A, B) == <<A[1], B[2]>>

\* np.diag(S) of a one-dimensional S
diag(S) == <<S, S>>

\* np.array(new_channels).transpose((1, 2, 0))
transpose_1_2_0(chans, a) == <<a[1], a[2], Len(chans)>>

InitSvd ==
    /\ img \in SvdImages
    /\ ranks \in RankTuples
    /\ new_channels = <<>>
    /\ new_img = <<>>
    /\ n_clusters = 0
    /\ centroids = <<>>
    /\ clust_pixels = <<>>
    /\ pc = "for_channel"
    /\ error = ""
    /\ NoSection4
    /\ NoSims
    /\ NoEvaluate
    /\ NoWcsse
    /\ NoSilhouette

\* one pass of `for a, r in zip(channels, ranks)`
SvdChannel ==
    /\ pc = "for_channel"
    /\ Len(new_channels) < Min(3, Len(ranks))
    /\ LET c   == Len(new_channels) + 1
           a   == <<img.shape[1], img.shape[2]>>
           r   == ranks[c]
           usv == approx_compact_svd(a, r)
       IN  IF \/ DotRaises(usv.U, diag(usv.S))
              \/ DotRaises(dot(usv.U, diag(usv.S)), T(usv.V))
           THEN /\ pc' = "raised"
                /\ error' = "ValueError"
                /\ UNCHANGED new_channels
           ELSE /\ new_channels' =
                      Append(new_channels,
                             [channel |-> c - 1, r |-> r, U |-> usv.U,
                              S |-> usv.S, V |-> usv.V,
                              shape |-> dot(dot(usv.U, diag(usv.S)),
                                            T(usv.V))])
                /\ UNCHANGED <<pc, error>>
    /\ UNCHANGED <<img, ranks, new_img, n_clusters, centroids, clust_pixels,
                   loopVars, workerVars, simsVars, evaluateVars, wcsseVars,
                   silhouetteVars>>

\* zip is exhausted: return np.array(new_channels).transpose((1, 2, 0))
SvdReturn ==
    /\ pc = "for_channel"
    /\ Len(new_channels) = Min(3, Len(ranks))
    /\ new_img' = [shape |-> transpose_1_2_0(new_channels,
                                             <<img.shape[1], img.shape[2]>>),
                   channels |-> [c \in DOMAIN new_channels |->
                                    [channel |-> new_channels[c].channel,
                                     r |-> new_channels[c].r]]]
    /\ pc' = "compressed"
    /\ UNCHANGED <<error, img, ranks, new_channels, n_clusters, centroids,
                   clust_pixels, loopVars, workerVars, simsVars, evaluateVars,
                   wcsseVars, silhouetteVars>>

NextSvd == SvdChannel \/ SvdReturn

SpecSvd == InitSvd /\ [][NextSvd]_vars

(***************************************************************************)
(* Properties.                                                             *)
(***************************************************************************)
AllIndices == 0..(Len(titanic_train) - 1)

\* C1: when the split generator is exhausted it has yielded exactly
\* n_splits held-out groups, every index of 0..n-1 lies in exactly one of
\* them (so their union is the whole range and none has a duplicate), and
\* the sizes of any two groups differ by at most 1.
C1_FoldsPartition ==
    pc = "previewed" =>
        /\ Len(printed) = n_splits
        /\ \A i \in AllIndices :
              Cardinality({f \in DOMAIN printed :
                  \E j \in DOMAIN printed[f].test : printed[f].test[j] = i}) = 1
        /\ \A f \in DOMAIN printed :
              /\ Range(printed[f].test) \subseteq AllIndices
              /\ Cardinality(Range(printed[f].test)) = Len(printed[f].test)
        /\ \A f, g \in DOMAIN printed :
              Len(printed[f].test) - Len(printed[g].test) <= 1

C1_Witness ==
    /\ pc = "previewed"
    /\ Len(titanic_train) = 7
    /\ n_splits = 3
    /\ Len(printed[1].test) = 3
    /\ Len(printed[3].test) = 2

\* C2: after every pass of the cross-validation loop body the training
\* indices and the held-out indices are disjoint and together are all of
\* 0..n-1, and the held-out indices are those of the fold just taken.
C2_TrainTestDisjoint ==
    (pc = "for_fold" /\ fold_i > 0) =>
        /\ Range(train) \cap Range(test) = {}
        /\ Range(train) \cup Range(test) = AllIndices
        /\ Len(test) = fold_sizes(Len(titanic_train), n_splits)[fold_i]
        /\ Len(train) + Len(test) = Len(titanic_train)

C2_Witness ==
    /\ pc = "for_fold"
    /\ fold_i = 2
    /\ Len(titanic_train) = 3
    /\ test = <<2>>
    /\ train = <<0, 1>>

InUnitInterval(score) == score[2] > 0 /\ 0 <= score[1] /\ score[1] <= score[2]

\* C3: when the cell has finished, `performance` has exactly the candidates
\* as keys, each key maps to exactly n_splits scores, the i-th score is over
\* the held-out records of the i-th fold, and every score lies in [0, 1].
C3_PerformanceShape ==
    pc = "done" =>
        /\ DOMAIN performance = Range(ages)
        /\ \A h \in DOMAIN performance :
              /\ Len(performance[h]) = n_splits
              /\ \A f \in 1..Len(performance[h]) :
                    /\ InUnitInterval(performance[h][f])
                    /\ performance[h][f][2] =
                          fold_sizes(Len(titanic_train), n_splits)[f]

C3_Witness ==
    /\ pc = "done"
    /\ ages = <<10, 50>>
    /\ n_splits = 2
    /\ Len(titanic_train) = 3
    /\ DOMAIN performance = {10, 50}
    /\ Len(performance[50]) = 2

\* the held-out and the training positions of fold f: the folds are laid
\* out one after the other over 0..n-1
HeldOut(f) ==
    LET sizes == fold_sizes(Len(titanic_train), n_splits)
    IN  {i \in AllIndices : /\ SizesBefore(sizes, f) <= i
                            /\ i < SizesBefore(sizes, f) + sizes[f]}

Training(f) == AllIndices \ HeldOut(f)

\* the rows at a set of positions, in increasing order of position
RowsAt(S) ==
    iloc(titanic_train, SelectSeq(Positions(titanic_train), LAMBDA i : i \in S))

Correct(h, f) ==
    {i \in HeldOut(f) :
        table_lookup_predictor_2(titanic_train[i + 1], RowsAt(Training(f)),
                                 h, tie_order)
            = titanic_train[i + 1].Survived}

\* C4: when the cell has finished, the score recorded for candidate h at
\* fold position f is the number of held-out records of fold f whose label,
\* predicted by table_lookup_predictor_2 from the training records of f with
\* cutoff h, equals their Survived label, over the number of held-out
\* records of f.
C4_ScoreIsAccuracy ==
    pc = "done" =>
        \A h \in DOMAIN performance : \A f \in DOMAIN performance[h] :
            performance[h][f] =
                <<Cardinality(Correct(h, f)), Cardinality(HeldOut(f))>>

C4_Witness ==
    /\ pc = "done"
    /\ 50 \in DOMAIN performance
    /\ Len(performance[50]) = 2
    /\ performance[50][1] = <<1, 2>>
    /\ performance[50][2] = <<0, 1>>

Returned == pc \in {"returned", "returned_2"}

\* the Survived labels of the rows the call voted over
Voted == Column(table, similar_tab)

\* C5: the rows table_lookup_predictor_2 votes over are exactly the rows
\* whose Pclass, Sex, Siblings/Spouses Aboard and Parents/Children Aboard
\* equal the query's and whose age is below the cutoff exactly if the
\* query's is; an age equal to the cutoff is on the "not below" side.
C5_FilterExact ==
    pc = "returned_2" =>
        /\ \A i \in 1..Len(table) :
              (i - 1) \in Range(similar_tab) <=>
                  /\ table[i].Pclass = x.Pclass
                  /\ table[i].Sex = x.Sex
                  /\ table[i].SiblingsSpousesAboard = x.SiblingsSpousesAboard
                  /\ table[i].ParentsChildrenAboard = x.ParentsChildrenAboard
                  /\ (table[i].Age < age <=> x.Age < age)
        /\ Range(similar_tab) \subseteq 0..(Len(table) - 1)
        /\ \A i \in 1..Len(table) :
              (table[i].Age = age /\ (i - 1) \in Range(similar_tab))
                  => x.Age >= age
        /\ \A i \in 1..Len(table) :
              (x.Age = age /\ (i - 1) \in Range(similar_tab))
                  => table[i].Age >= age

C5_Witness ==
    /\ pc = "returned_2"
    /\ age = 10
    /\ x.Age = 10
    /\ Len(table) = 3
    /\ table[1].Age = 5 /\ SimilarMask(x, table[1])
    /\ table[2].Age = 10 /\ SimilarMask(x, table[2])
    /\ ~SimilarMask(x, table[3])
    /\ similar_tab = <<1>>

\* C6: when no row of a non-empty table satisfies the filter, both
\* predictors return the default label, a most frequent Survived label of
\* the whole table.
C6_EmptyMatchDefault ==
    (Returned /\ Len(similar_tab) = 0) =>
        /\ result = DefaultLabel(table, tie_order)
        /\ result \in Range(Column(table, Positions(table)))
        /\ \A l \in Labels :
              Count(Column(table, Positions(table)), l)
                  <= Count(Column(table, Positions(table)), result)

C6_Witness ==
    /\ pc = "returned_2"
    /\ Len(similar_tab) = 0
    /\ Len(table) = 3
    /\ Count(Column(table, Positions(table)), 0) = 2
    /\ \E i \in 1..Len(table) : SimilarMask(x, table[i])
    /\ result = 0

\* C7: when at least one row matches, the predictor returns a label whose
\* count among the matching rows is maximal, and the result is the one the
\* matching rows alone would give: other rows have no influence.
C7_MajorityOfMatches ==
    (Returned /\ Len(similar_tab) > 0) =>
        /\ result \in Range(Voted)
        /\ \A l \in Labels : Count(Voted, l) <= Count(Voted, result)
        /\ result = DefaultLabel(iloc(table, similar_tab), tie_order)

C7_Witness ==
    /\ pc = "returned_2"
    /\ Voted = <<1, 1, 0>>
    /\ result = 1

Tied(col) == \E a, b \in Range(col) : a # b /\ Count(col, a) = Count(col, b)

\* the labels the call counted: those of the matching rows, or of the
\* whole table when no row matches
Counted == IF Len(similar_tab) = 0 THEN Column(table, Positions(table))
           ELSE Voted

C9_SelfLookup ==
    (Returned /\ x \in Range(table)) =>
        /\ Len(similar_tab) = 1 => result = x.Survived
        /\ 2 * Count(Voted, x.Survived) > Len(similar_tab)
              => result = x.Survived

C9_Witness ==
    /\ pc = "returned"
    /\ table[1] = x
    /\ Voted = <<1, 0, 1>>
    /\ x.Survived = 1
    /\ result = 1

\* C10: a second execution of the cross-validation cell on the same
\* dataset, candidate list and KFold object ends with the same
\* candidate-to-scores mapping as the first.
C10_RerunSameResult ==
    (pc = "done" /\ run > 1) => performance = first_performance

C10_Witness ==
    /\ pc = "done"
    /\ run = 2
    /\ Len(titanic_train) = 3
    /\ n_splits = 2
    /\ 50 \in DOMAIN performance
    /\ performance[50] = <<(<<1, 2>>), (<<1, 1>>)>>
    /\ first_performance = performance

\* C11: once every (candidate, fold) evaluation has been written by the
\* workers, whatever the order in which they were taken and written, the
\* slots hold exactly the scores of the mapping the sequential loop
\* produced: slot (h, f) is the f-th score of candidate h.
C11_WorkersMatchSequential ==
    (pc = "done" /\ DOMAIN slots = AllSlots) =>
        /\ DOMAIN performance = {s[1] : s \in DOMAIN slots}
        /\ \A h \in DOMAIN performance :
              /\ DOMAIN performance[h] = {s[2] : s \in DOMAIN slots}
              /\ \A f \in DOMAIN performance[h] :
                    slots[<<h, f>>] = performance[h][f]

C11_Witness ==
    /\ pc = "done"
    /\ DOMAIN slots = AllSlots
    /\ running = {}
    /\ Len(titanic_train) = 3
    /\ n_splits = 2
    /\ slots[<<10, 1>>] = <<1, 2>>
    /\ slots[<<50, 2>>] = <<0, 1>>

\* C12: fold construction fails with ValueError (Python's exception for an
\* argument of invalid value), having produced no fold, whenever the fold
\* count is below 2 or above the number of records: n_splits < 2 is
\* rejected when kf is constructed, n_splits > n when the first pair is
\* asked of kf.split; no such input ever yields a pair.
C12_InvalidFoldCount ==
    /\ (n_splits < 2 \/ n_splits > Len(titanic_train)) =>
          /\ printed = <<>>
          /\ fold_i = 0
          /\ pc \in {"construct", "preview", "raised"}
          /\ pc = "preview" => n_splits >= 2
    /\ pc = "raised" =>
          /\ n_splits < 2 \/ n_splits > Len(titanic_train)
          /\ error = "ValueError"
    /\ pc # "raised" => error = ""

C12_Witness ==
    /\ pc = "raised"
    /\ error = "ValueError"
    /\ n_splits = 4
    /\ Len(titanic_train) = 3
    /\ printed = <<>>

C14_AllOrNothing ==
    /\ pc = "raised" => performance = <<>>
    /\ pc = "done" =>
          /\ DOMAIN performance = Range(ages)
          /\ \A h \in DOMAIN performance :
                DOMAIN performance[h] = 1..n_splits

\* C15: when n_splits equals the number of records, every fold has exactly
\* one held-out record and n - 1 training records, and every score of the
\* finished mapping is 0 or 1.
C15_LeaveOneOut ==
    (n_splits = Len(titanic_train) /\ error = "") =>
        /\ (pc = "for_fold" /\ fold_i > 0) =>
              /\ Len(test) = 1
              /\ Len(train) = Len(titanic_train) - 1
              /\ cv_perf[fold_i] \in {<<0, 1>>, <<1, 1>>}
        /\ pc = "done" =>
              \A h \in DOMAIN performance : \A f \in DOMAIN performance[h] :
                  performance[h][f] \in {<<0, 1>>, <<1, 1>>}

C15_Witness ==
    /\ pc = "done"
    /\ Len(titanic_train) = 3
    /\ n_splits = 3
    /\ 10 \in DOMAIN performance
    /\ performance[10] = <<(<<1, 1>>), (<<0, 1>>), (<<1, 1>>)>>

\* C16: kf.split does not shuffle: each printed held-out group is a block of
\* consecutive indices, the block of a later fold lies above the block of
\* every earlier fold (the first block starts at 0 and each block starts
\* where the one before it stopped), and each printed list of training
\* indices is increasing.
C16_ContiguousBlocks ==
    \A f \in DOMAIN printed :
        /\ \A j \in 1..(Len(printed[f].test) - 1) :
              printed[f].test[j + 1] = printed[f].test[j] + 1
        /\ \A j \in 1..(Len(printed[f].train) - 1) :
              printed[f].train[j] < printed[f].train[j + 1]
        /\ \A g \in DOMAIN printed :
              f < g => \A a \in Range(printed[f].test) :
                         \A b \in Range(printed[g].test) : a < b
        /\ Len(printed[f].test) > 0 =>
              printed[f].test[1] =
                 SizesBefore([g \in DOMAIN printed |-> Len(printed[g].test)], f)

C16_Witness ==
    /\ pc = "previewed"
    /\ Len(titanic_train) = 8
    /\ n_splits = 3
    /\ printed[2].test = <<3, 4, 5>>
    /\ printed[2].train = <<0, 1, 2, 6, 7>>
    /\ printed[3].test = <<6, 7>>

C18_InputsReadOnly ==
    [][/\ titanic_train' = titanic_train
       /\ ages' = ages
       /\ n_splits' = n_splits
       /\ UNCHANGED <<x, table, similar_tab, result, printed, simsVars>>]_vars

C18_Witness ==
    /\ pc = "done"
    /\ Len(titanic_train) = 3
    /\ ages = <<10, 50>>
    /\ DOMAIN performance = {10, 50}
    /\ cv_perf # <<>>

HeadlineIndices == 0..(Len(headlines) - 1)

\* the pairs (i, j) the loop has already stored
Stored ==
    {c \in HeadlineIndices \X HeadlineIndices :
        /\ c[1] <= c[2]
        /\ c[1] < sim_i \/ (c[1] = sim_i /\ c[2] < sim_j)}

\* C19: when the affinity loop has finished, sims[i,j] = sims[j,i] for
\* every pair of headline indices.
C19_SimsSymmetric ==
    pc = "sims_done" =>
        \A i, j \in HeadlineIndices : sims[<<i, j>>] = sims[<<j, i>>]

C19_Witness ==
    /\ pc = "sims_done"
    /\ Len(headlines) = 3
    /\ sims[<<0, 1>>] = <<1, 2>>
    /\ sims[<<1, 0>>] = <<1, 2>>
    /\ sims[<<2, 0>>] = <<0, 3>>

\* C20 (as claimed): the loop computes a similarity for every pair of
\* headlines, also for a headline too short to have a 3-gram; each computed
\* similarity lies between 0 and 1, is 1 when the two sets are identical
\* (so every diagonal entry is 1 when the loop has finished) and 0 when they
\* have nothing in common.
C20_JaccardUnitRange ==
    /\ error # "ZeroDivisionError"
    /\ \A c \in Stored :
          LET h1 == headline_sets[c[1] + 1]
              h2 == headline_sets[c[2] + 1]
              js == sims[c]
          IN  /\ js[2] > 0 /\ 0 <= js[1] /\ js[1] <= js[2]
              /\ h1 = h2 => js[1] = js[2]
              /\ h1 \cap h2 = {} => js[1] = 0
    /\ pc = "sims_done" =>
          \A i \in HeadlineIndices :
              sims[<<i, i>>][1] = sims[<<i, i>>][2]

\* C23: when the affinity loop has finished, every entry (i, j) of sims,
\* below the diagonal as well as on and above it, holds the number of common
\* 3-grams of headlines i and j over the number of 3-grams of either; no
\* entry is left as np.zeros made it unless that is its similarity.
C23_EveryEntryAssigned ==
    pc = "sims_done" =>
        \A i, j \in HeadlineIndices :
            /\ sims[<<i, j>>][1] =
                  Cardinality(headline_sets[i + 1] \cap headline_sets[j + 1])
            /\ sims[<<i, j>>][2] =
                  Cardinality(headline_sets[i + 1] \cup headline_sets[j + 1])

C23_Witness ==
    /\ pc = "sims_done"
    /\ headlines = << <<"a", "b", "c", "d">>, <<"b", "c", "d">>,
                      <<"x", "y", "z", "x">> >>
    /\ sims[<<1, 0>>] = <<1, 2>>
    /\ sims[<<2, 1>>] = <<0, 3>>
    /\ sims[<<2, 2>>] = <<2, 2>>

\* the first held-out index and the number of held-out indices at fold
\* position f, written from the number of records and the fold count alone
PairStart(f) ==
    LET n == Len(titanic_train)
        q == n \div n_splits
        r == n % n_splits
    IN  (f - 1) * q + (IF f - 1 < r THEN f - 1 ELSE r)

PairSize(f) ==
    (Len(titanic_train) \div n_splits)
        + (IF f <= Len(titanic_train) % n_splits THEN 1 ELSE 0)

\* C25: the (train, test) pair a candidate gets at fold position f is fixed
\* by the number of records, the fold count and f alone, whichever candidate
\* the outer loop is at; so every candidate is scored on the same held-out
\* records at the same fold position.
C25_SamePartitionPerCandidate ==
    (pc = "for_fold" /\ fold_i > 0) =>
        /\ test = [j \in 1..PairSize(fold_i) |-> PairStart(fold_i) + j - 1]
        /\ train = SelectSeq([i \in 1..Len(titanic_train) |-> i - 1],
                             LAMBDA i : i \notin Range(test))

C25_Witness ==
    /\ pc = "for_fold"
    /\ age_i = 2
    /\ age = 50
    /\ Len(titanic_train) = 3
    /\ n_splits = 2
    /\ fold_i = 1
    /\ test = <<0, 1>>
    /\ train = <<2>>
    /\ 10 \in DOMAIN performance

Exchanged(tab, i) ==
    [j \in 1..Len(tab) |->
        IF j = i THEN tab[i + 1] ELSE IF j = i + 1 THEN tab[i] ELSE tab[j]]

CallRecords == {x} \cup Range(table)

\* C28: for the cutoff of the call, the mask of table_lookup_predictor_2,
\* taken as a relation between records, is reflexive, symmetric and
\* transitive, and the rows the call votes over are exactly the rows of the
\* table that the relation joins to the query.
C28_SimilarityIsEquivalence ==
    pc = "returned_2" =>
        /\ \A a \in CallRecords : SimilarMask2(a, a, age)
        /\ \A a, b \in CallRecords :
              SimilarMask2(a, b, age) => SimilarMask2(b, a, age)
        /\ \A a, b, c \in CallRecords :
              (SimilarMask2(a, b, age) /\ SimilarMask2(b, c, age))
                  => SimilarMask2(a, c, age)
        /\ Range(similar_tab) =
              {i \in Range(Positions(table)) :
                  \A c \in CallRecords :
                      SimilarMask2(x, c, age) <=> SimilarMask2(table[i + 1], c, age)}

C28_Witness ==
    /\ pc = "returned_2"
    /\ age = 10
    /\ x.Age = 10
    /\ Len(table) = 3
    /\ similar_tab = <<0, 2>>
    /\ table[2].Age = 5
    /\ table[2].Pclass = x.Pclass
    /\ table[2].Sex = x.Sex

\* every age of the table is on the side of the cutoff the query's age is on
SameSide == \A i \in DOMAIN table : (table[i].Age < age) = (x.Age < age)

\* C29: when the ages of all rows of the table and the age of the query are
\* on the same side of the cutoff (all below it, or all not below it),
\* table_lookup_predictor_2 returns the label table_lookup_predictor
\* returns for the same query and table.
C29_SameSideAgreesWithFirst ==
    (pc = "returned_2" /\ SameSide) =>
        result = table_lookup_predictor(x, table, tie_order)

C29_Witness ==
    /\ pc = "returned_2"
    /\ SameSide
    /\ age = 50
    /\ x.Age = 10
    /\ Len(table) = 3
    /\ Voted = <<0, 0>>
    /\ table[3].Sex = "female"
    /\ result = 0

\* C24 (as claimed): wcsse_plot makes one fit for each k of 1..max_clusters,
\* in increasing order, and the value plotted at position k is the inertia_
\* of the fit with k clusters.
C24_PlotsInertia ==
    pc = "plotted" =>
        /\ fits = arange_plus_1(Len(wcsse))
        /\ \A k \in DOMAIN wcsse : wcsse[k] * inertia_[k][2] = inertia_[k][1]

\* the bands drawn so far lie one above the other: the first starts at 10,
\* a band has one y position for every member of its cluster, the next band
\* starts 10 above the end of the one before, and the labels increase
BandsLaidOut ==
    \A b \in DOMAIN bands :
        /\ Len(bands[b].y) = Count(labels, bands[b].k)
        /\ Len(bands[b].x2) = Len(bands[b].y)
        /\ \A j \in DOMAIN bands[b].y :
              bands[b].y[j] = bands[b].y[1] + j - 1
        /\ b = 1 => bands[b].y[1] = 10
        /\ b > 1 =>
              /\ bands[b].y[1] =
                    bands[b - 1].y[1] + Len(bands[b - 1].y) + 10
              /\ bands[b - 1].k < bands[b].k
        /\ \A c \in DOMAIN bands :
              b # c => Range(bands[b].y) \cap Range(bands[c].y) = {}

\* C30: in silhouette_plot the bands never overlap: the first starts at
\* y = 10, each spans as many y positions as its cluster has members, the
\* next starts 10 above the end of the one before, the bands follow the
\* increasing order of the cluster labels, every cluster has its band when
\* the plot is drawn, and no pass of the loop changes the array of
\* per-sample silhouette values.
C30_BandsDoNotOverlap ==
    [][/\ BandsLaidOut'
       /\ pc' = "drawn" => Len(bands') = Cardinality(Range(labels))
       /\ pc = "for_band" =>
             sample_silhouette_values' = sample_silhouette_values]_vars

C30_Witness ==
    /\ pc = "drawn"
    /\ labels = <<2, 0, 2, 0>>
    /\ sample_silhouette_values = <<5, 5, -5, 0>>
    /\ Len(bands) = 2
    /\ bands[1].y = <<10, 11>>
    /\ bands[2].y = <<22, 23>>
    /\ bands[2].x2 = <<-5, 5>>

\* the colours of an image
ColoursIn(im) == {im.data[c] : c \in DOMAIN im.data}

\* C21: the image kmeans_compression returns has the shape of img; the
\* colour of every pixel is a centroid, one that no other centroid is
\* closer to the pixel's colour in img (the centroid of the cluster the
\* pixel was assigned to); so it has at most n_clusters colours, and two
\* pixels of one cluster have one colour.
C21_PixelsBecomeCentroids ==
    pc = "recolored" =>
        /\ new_img.shape = img.shape
        /\ DOMAIN new_img.data = DOMAIN img.data
        /\ \A c \in DOMAIN img.data :
              /\ new_img.data[c] \in Range(centroids)
              /\ \A e \in DOMAIN centroids :
                    dist2(img.data[c], new_img.data[c])
                        <= dist2(img.data[c], centroids[e])
        /\ Cardinality(ColoursIn(new_img)) <= n_clusters
        /\ \A c, e \in DOMAIN img.data :
              clust_pixels[c[1] * img.shape[2] + c[2] + 1]
                    = clust_pixels[e[1] * img.shape[2] + e[2] + 1]
                  => new_img.data[c] = new_img.data[e]

C21_Witness ==
    /\ pc = "recolored"
    /\ img.shape = <<2, 2, 3>>
    /\ n_clusters = 2
    /\ Cardinality(ColoursIn(img)) = 3
    /\ centroids = << <<0, 0, 0>>, <<1, 1, 1>> >>
    /\ img.data[<<0, 1>>] = <<1, 1, 1>>
    /\ img.data[<<1, 0>>] = <<1, 0, 0>>
    /\ new_img.data[<<0, 1>>] = <<1, 1, 1>>
    /\ new_img.data[<<1, 0>>] = <<0, 0, 0>>

\* the rank of pass c lies between 1 and the smaller side of the channel
RankInRange(c) ==
    1 <= ranks[c] /\ ranks[c] <= Min(img.shape[1], img.shape[2])

\* C22: for an m x n channel and a rank r with 1 <= r <= min(m, n),
\* approx_compact_svd gives U of shape (m, r), S of length r and V of shape
\* (n, r), so the product is defined and m x n; and for an image of three
\* channels and three such ranks svd_compress_image returns an array of the
\* shape of img whose channel c was built from channel c with ranks[c].
C22_SvdShapes ==
    /\ \A c \in DOMAIN new_channels :
          RankInRange(c) =>
              /\ new_channels[c].U = <<img.shape[1], ranks[c]>>
              /\ new_channels[c].S = ranks[c]
              /\ new_channels[c].V = <<img.shape[2], ranks[c]>>
              /\ new_channels[c].shape = <<img.shape[1], img.shape[2]>>
    /\ (Len(ranks) = 3 /\ \A c \in 1..3 : RankInRange(c)) =>
          /\ pc # "raised"
          /\ (pc = "compressed" /\ img.shape[3] = 3) =>
                /\ new_img.shape = img.shape
                /\ \A c \in 1..3 :
                      /\ new_img.channels[c].channel = c - 1
                      /\ new_img.channels[c].r = ranks[c]

C22_Witness ==
    /\ pc = "compressed"
    /\ img.shape = <<2, 1, 3>>
    /\ ranks = <<1, 1, 1>>
    /\ new_channels[3].U = <<2, 1>>
    /\ new_channels[3].V = <<1, 1>>
    /\ new_img.shape = <<2, 1, 3>>

====
